---- MODULE Spec2Model ----
(***************************************************************************)
(* Model of the dependency resolver of verdaccio-ingest-middleware         *)
(* (DependencyResolver: packument cache, layered BFS analysis, plan        *)
(* de-duplication).                                                        *)
(*                                                                         *)
(* Versions are semver triples with a prerelease flag, <<maj,min,pat,pre>>.*)
(* Version ranges are the strings of a manifest, modelled by their parsed  *)
(* form: <<"exact", v>> ("1.2.0"), <<"caret", v>> ("^1.2.0"),              *)
(* <<"gte", v>> (">=1.2.0") and <<"tag", t>> (a dist-tag name, which is    *)
(* not a valid semver range).                                              *)
(***************************************************************************)
EXTENDS Integers, Sequences, FiniteSets, TLC

VARIABLES
  \* -- the resolver instance (shared by every task of the middleware)
  packumentCache,     \* names with a (trimmed) packument in this.packumentCache
  packumentInflight,  \* this.packumentInflight: name -> promise id, 0 = no entry
  promises,           \* every promise created by getPackument's async request
  \* -- independent callers of getPackument (concurrent tasks)
  clients,
  \* -- the inputs of one analyzeMissingDependencies call
  registry,           \* the packuments the upstream registry serves
  cached,             \* CachedPackage[]: <<[name, versions]>>
  metadataNames,      \* names that have an entry in metadata (RefreshedMetadata[])
  options,            \* SyncOptions
  concurrency,        \* config.concurrency (0 = not configured)
  \* -- the locals of that call
  pc, status, currentLayer, idx, nextLayer, nextLayerSeen, processed,
  analyzedDeps, missing, depth, totalProcessed, uniqueMissing,
  queue,              \* prefetch tasks waiting in the p-limit queue
  active,             \* promise ids awaited by running prefetch tasks
  awaiting,           \* promise id awaited by resolveVersionFromCache, 0 = none
  \* -- history (not program state)
  expanded,           \* <<name, version>> of every dependency extraction, in order
  resolutions,        \* every [name, range, version] resolveVersionFromCache returned
  layers,             \* number of loop iterations entered
  entered,            \* number of targets in the layers entered
  unresolved,         \* some target's resolution returned null
  \* -- the download engine (PackageDownloader.downloadAll and
  \*    IngestMiddleware.executeDownload)
  dlMode,             \* which of the two entry points runs
  dlStatus,           \* "idle", "rejected", "ready", "running", "returned", "threw"
  plan,               \* the packages handed to the engine: <<[name, version]>>
  limit,              \* the concurrency the engine was started with, 0 = none
  tasks,              \* per plan item: [pc, payload, written]
  tarballs,           \* the tarball paths present in the store
  results,            \* the result list of the running call
  failedPackages,     \* executeDownload: the items that failed, in order
  batchIndex,         \* executeDownload: i of the batch loop
  \* -- one call of findSiblingVersions
  sibCached, sibAvailable, sibResult,
  \* -- history of clearCache
  clearedAt,          \* number of requests issued when clearCache ran, -1 = never
  \* -- the task table of the middleware and its running executors
  ingestTasks,        \* this.tasks: task id -> [status, message]
  execs,              \* per task: [kind, pc, items, started, planReturned]
  \* -- one readPackage call of the offline storage
  offData,            \* [name, offline, hasProxy] and the stored manifest's
                      \* versions and dist-tags.latest
  offItems,           \* readdir(this.path): the file names of the package directory
  offCall,            \* [pc, offline, err, versions, latest]: what cb received
  \* -- one importPackage call of the differential importer
  impFiles,           \* manifest.files with the state of each extracted file
  impOptions,         \* [validateChecksum, overwrite]
  impPc,              \* "idle", "validating", "importing", "returned"
  impIndex,           \* position of the running loop in manifest.files
  impErrors,          \* errors: <<[kind, file]>>
  impStorage,         \* the manifest positions whose file was copied into storage
  impCounts           \* [imported, skipped, failed]

cacheVars == <<packumentCache, packumentInflight, promises>>
inputVars == <<registry, cached, metadataNames, options, concurrency>>
localVars == <<pc, status, currentLayer, idx, nextLayer, nextLayerSeen, processed,
               analyzedDeps, missing, depth, totalProcessed, uniqueMissing,
               queue, active, awaiting>>
histVars == <<expanded, resolutions, layers, entered, unresolved>>
runVars == <<inputVars, localVars, histVars>>
downloadVars == <<dlMode, dlStatus, plan, limit, tasks, tarballs, results,
                  failedPackages, batchIndex>>
siblingVars == <<sibCached, sibAvailable, sibResult>>
taskVars == <<ingestTasks, execs>>
offlineVars == <<offData, offItems, offCall>>
importVars == <<impFiles, impOptions, impPc, impIndex, impErrors, impStorage,
                impCounts>>
extraVars == <<taskVars, offlineVars, importVars>>
otherVars == <<downloadVars, siblingVars, clearedAt, extraVars>>
vars == <<cacheVars, clients, runVars, otherVars>>

----------------------------------------------------------------------------
(* Bounds *)

NumClients == 3
MaxDedupLen == 3
MaxDepthOpt == 2
MaxConcurrencyOpt == 2
MaxFailures == 1

\* program constants
DefaultMaxDepth == 50
DefaultConcurrency == 5

----------------------------------------------------------------------------
(* semver *)

V(a, b, c) == <<a, b, c, 0>>
PreV(a, b, c) == <<a, b, c, 1>>

IsStable(v) == v[4] = 0

\* semver.compare: numeric fields first, a prerelease sorts before its release
VLess(a, b) ==
  \/ a[1] < b[1]
  \/ a[1] = b[1] /\ a[2] < b[2]
  \/ a[1] = b[1] /\ a[2] = b[2] /\ a[3] < b[3]
  \/ a[1] = b[1] /\ a[2] = b[2] /\ a[3] = b[3] /\ a[4] > b[4]

VLeq(a, b) == a = b \/ VLess(a, b)

\* upper bound of "^base"
CaretUpper(base) ==
  IF base[1] > 0 THEN V(base[1] + 1, 0, 0)
  ELSE IF base[2] > 0 THEN V(0, base[2] + 1, 0)
  ELSE V(0, 0, base[3] + 1)

\* semver.satisfies(v, range); an invalid range (a tag name) satisfies nothing,
\* a prerelease only matches a comparator that names it
Satisfies(v, range) ==
  CASE range[1] = "exact" -> v = range[2]
    [] range[1] = "caret" ->
         IsStable(v) /\ VLeq(range[2], v) /\ VLess(v, CaretUpper(range[2]))
    [] range[1] = "gte"   -> IsStable(v) /\ VLeq(range[2], v)
    [] range[1] = "below" ->
         IsStable(v) /\ VLeq(range[2], v) /\ VLess(v, range[3])
    [] OTHER -> FALSE

NoVersion == <<>>

\* semver.maxSatisfying(versions, range): null when nothing satisfies
MaxSatisfying(versions, range) ==
  LET ok == {v \in versions : Satisfies(v, range)}
  IN IF ok = {} THEN NoVersion
     ELSE CHOOSE v \in ok : \A w \in ok : VLeq(w, v)

----------------------------------------------------------------------------
(* The upstream registry: the packuments pacote.packument can return *)

NoDeps == <<>>

Manifest(deps, dev, peer, opt) ==
  [dependencies |-> deps, devDependencies |-> dev,
   peerDependencies |-> peer, optionalDependencies |-> opt]

\* names npm-package-arg rejects: pacote.packument throws before it suspends
InvalidNames == {"B"}

Names == {"P", "Q", "D", "E", "B"}

\* dangling = TRUE: the dist-tag "latest" of E names a version its versions
\* map does not have (an unpublished version)
Registry(dangling) ==
  [n \in Names \ InvalidNames |->
    CASE n = "P" ->
      [versions |->
         (V(1,0,0) :> Manifest(<< <<"D", <<"caret", V(1,0,0)>> >> >>, NoDeps,
                               << <<"D", <<"gte", V(2,0,0)>> >> >>, NoDeps)
          @@ V(1,0,1) :> Manifest(<< <<"D", <<"caret", V(1,0,0)>> >> >>,
                                  NoDeps, NoDeps, NoDeps)),
       distTags |-> ("latest" :> V(1,0,1))]
    [] n = "Q" ->
      [versions |->
         (V(1,0,0) :> Manifest(<< <<"D", <<"caret", V(1,1,0)>> >>,
                                  <<"E", <<"tag", "latest">> >> >>,
                               << <<"D", <<"caret", V(1,0,0)>> >> >>, NoDeps,
                               << <<"B", <<"caret", V(1,0,0)>> >> >>)),
       distTags |-> ("latest" :> V(1,0,0))]
    [] n = "D" ->
      [versions |->
         (V(1,0,0) :> Manifest(NoDeps, NoDeps, NoDeps, NoDeps)
          @@ V(1,2,0) :> Manifest(<< <<"E", <<"caret", V(1,0,0)>> >> >>,
                                  NoDeps, NoDeps, NoDeps)
          @@ V(2,0,0) :> Manifest(<< <<"P", <<"caret", V(1,0,0)>> >> >>,
                                  NoDeps, NoDeps, NoDeps)),
       distTags |-> ("latest" :> V(2,0,0))]
    [] OTHER ->
      [versions |->
         (V(1,0,0) :> Manifest(<< <<"D", <<"caret", V(1,0,0)>> >> >>,
                               NoDeps, NoDeps, NoDeps)),
       distTags |-> ("latest" :> IF dangling THEN V(1,1,0) ELSE V(1,0,0))]]

----------------------------------------------------------------------------
(* Metadata cache: getPackument *)

NoData == "null"
Thrown == "rejected"

\* faulty variant: the catch block rethrows
getPackumentCatch_rethrow == Thrown

\* the catch block of the request: log, resolve with null
getPackumentCatch == NoData

PendingFor(n) ==
  {i \in DOMAIN promises : promises[i].name = n /\ promises[i].state = "pending"}

FailedBefore(n) ==
  \E i \in DOMAIN promises :
    promises[i].name = n /\ promises[i].state \in {NoData, Thrown}

\* number of pacote.packument calls made for n
RegistryCalls(n) == Cardinality({i \in DOMAIN promises : promises[i].name = n})

\* what getPackument(n) hands to its caller: 0 = the cached packument,
\* otherwise the id of the promise to await
\* faulty variant: the in-flight map is not consulted
InflightFor_miss(n) == 0

\* this.packumentInflight.get(name)
InflightFor(n) == packumentInflight[n]

getPackumentReturn(n) ==
  IF n \in packumentCache THEN 0
  ELSE IF InflightFor(n) # 0 THEN InflightFor(n)
  ELSE Len(promises) + 1

\* the call reaches pacote.packument
getPackumentIssues(n) ==
  n \notin packumentCache /\ InflightFor(n) = 0

\* the state change of one getPackument(n) call, up to its return.  The async
\* request body runs synchronously until its first await: a synchronous throw
\* of pacote.packument is caught, "finally" deletes the (absent) in-flight
\* entry, and only then the already settled promise is put in the map.
getPackument(n) ==
  IF getPackumentIssues(n)
  THEN /\ promises' = Append(promises,
            [name |-> n,
             state |-> IF n \in InvalidNames THEN getPackumentCatch
                       ELSE "pending"])
       /\ packumentInflight' =
            [packumentInflight EXCEPT ![n] = Len(promises) + 1]
       /\ UNCHANGED packumentCache
  ELSE UNCHANGED cacheVars

\* pacote.packument settles: the continuation of the request body
FetchSettle(id, ok) ==
  /\ id \in DOMAIN promises
  /\ promises[id].state = "pending"
  /\ promises' = [promises EXCEPT
        ![id].state = IF ok THEN "ok" ELSE getPackumentCatch]
  /\ packumentCache' =
        IF ok THEN packumentCache \cup {promises[id].name} ELSE packumentCache
  /\ packumentInflight' = [packumentInflight EXCEPT ![promises[id].name] = 0]

----------------------------------------------------------------------------
(* Independent callers of getPackument (refreshMetadata / prefetch tasks    *)
(* of concurrently running sync and analysis tasks on the shared resolver)  *)

IdleClient ==
  [pc |-> "idle", name |-> "", promise |-> 0, issued |-> FALSE,
   cachedAtReq |-> FALSE, pendingAtReq |-> {}, failedBefore |-> FALSE,
   result |-> ""]

ClientRequest(c, n) ==
  /\ clients[c].pc = "idle"
  /\ getPackument(n)
  /\ clients' = [clients EXCEPT ![c] =
        [pc |-> IF getPackumentReturn(n) = 0 THEN "done" ELSE "waiting",
         name |-> n,
         promise |-> getPackumentReturn(n),
         issued |-> getPackumentIssues(n),
         cachedAtReq |-> n \in packumentCache,
         pendingAtReq |-> PendingFor(n),
         failedBefore |-> FailedBefore(n),
         result |-> IF getPackumentReturn(n) = 0 THEN "ok" ELSE ""]]
  /\ UNCHANGED <<runVars, otherVars>>

ClientSettle(id, ok) ==
  /\ FetchSettle(id, ok)
  /\ UNCHANGED <<clients, runVars, otherVars>>

\* the awaiting caller resumes with the settled value
ClientResume(c) ==
  /\ clients[c].pc = "waiting"
  /\ promises[clients[c].promise].state # "pending"
  /\ clients' = [clients EXCEPT
        ![c].pc = "done",
        ![c].result = promises[clients[c].promise].state]
  /\ UNCHANGED <<cacheVars, runVars, otherVars>>

----------------------------------------------------------------------------
(* deduplicatePackages *)

PkgKey(pkg) == <<pkg.name, pkg.version>>

\* the loop over packages: the first entry of a key is kept
RECURSIVE DedupLoop(_)
DedupLoop(packages) ==
  IF packages = <<>> THEN <<>>
  ELSE LET front == DedupLoop(SubSeq(packages, 1, Len(packages) - 1))
           last == packages[Len(packages)]
       IN IF \E i \in DOMAIN front : PkgKey(front[i]) = PkgKey(last)
          THEN front
          ELSE Append(front, last)

\* faulty variant: the input list is returned instead of the values of the map
deduplicatePackages_keepAll(packages) == packages

deduplicatePackages(packages) == DedupLoop(packages)

----------------------------------------------------------------------------
(* analyzeMissingDependencies: helpers *)

RECURSIVE SeqToSet(_)
SeqToSet(s) == IF s = <<>> THEN {} ELSE {Head(s)} \cup SeqToSet(Tail(s))

\* cachedMap.get(name)?.versions, <<>> when the name is not cached
CachedVersions(name) ==
  IF \E i \in DOMAIN cached : cached[i].name = name
  THEN cached[CHOOSE i \in DOMAIN cached :
                /\ cached[i].name = name
                /\ \A j \in DOMAIN cached : cached[j].name = name => j <= i].versions
  ELSE <<>>

IsCachedName(name) == \E i \in DOMAIN cached : cached[i].name = name

\* faulty variant: the local store is not consulted
hasLocalVersion_never(name, version) == FALSE

\* cachedPkg?.versions.includes(resolvedVersion)
hasLocalVersion(name, version) == version \in SeqToSet(CachedVersions(name))

\* versions.some(v => semver.satisfies(v, range))
hasMatchingVersion(versions, range) ==
  \E i \in DOMAIN versions : Satisfies(versions[i], range)

\* {...a, ...b}: an entry of b replaces the same-named entry of a in place,
\* a new name is appended
RECURSIVE Spread(_, _)
Spread(a, b) ==
  IF b = <<>> THEN a
  ELSE LET e == Head(b)
           a2 == IF \E i \in DOMAIN a : a[i][1] = e[1]
                 THEN [i \in DOMAIN a |-> IF a[i][1] = e[1] THEN e ELSE a[i]]
                 ELSE Append(a, e)
       IN Spread(a2, Tail(b))

collectDependencies(manifest, opts) ==
  Spread(Spread(Spread(manifest.dependencies,
      IF opts.includeDev THEN manifest.devDependencies ELSE NoDeps),
      IF opts.includePeer THEN manifest.peerDependencies ELSE NoDeps),
      IF opts.includeOptional THEN manifest.optionalDependencies ELSE NoDeps)

\* faulty variant: the lowest satisfying version is taken for a range
ResolveIn_lowest(packument, range) ==
  IF range[1] = "exact" /\ range[2] \in DOMAIN packument.versions
  THEN range[2]
  ELSE IF range[1] = "tag" /\ range[2] \in DOMAIN packument.distTags
  THEN packument.distTags[range[2]]
  ELSE LET ok == {v \in DOMAIN packument.versions : Satisfies(v, range)}
       IN IF ok = {} THEN NoVersion
          ELSE CHOOSE v \in ok : \A w \in ok : VLeq(v, w)

\* resolveVersionFromCache once the packument is in the cache
ResolveIn(packument, range) ==
  IF range[1] = "exact" /\ range[2] \in DOMAIN packument.versions
  THEN range[2]
  ELSE IF range[1] = "tag" /\ range[2] \in DOMAIN packument.distTags
  THEN packument.distTags[range[2]]
  ELSE MaxSatisfying(DOMAIN packument.versions, range)

\* faulty variant: the key is built from the requested range
TargetKey_byRange(name, versionRange, resolvedVersion) == <<name, versionRange>>

\* const key = `${name}@${resolvedVersion}`
TargetKey(name, versionRange, resolvedVersion) == <<name, resolvedVersion>>

Target(name, versionRange, requiredBy, reason) ==
  [name |-> name, versionRange |-> versionRange,
   requiredBy |-> requiredBy, reason |-> reason]

\* result.add(v) on an insertion-ordered Set
AddOnce(s, v) == IF \E i \in DOMAIN s : s[i] = v THEN s ELSE Append(s, v)

\* faulty variant: no version counts as cached
cachedSetHas_never(cachedSet, v) == FALSE

\* cachedSet.has(v)
cachedSetHas(cachedSet, v) == v \in cachedSet

\* `>=${major}.${minor}.0 <${major}.${minor + 1}.0`
patchRange(major, minor) ==
  <<"below", V(major, minor, 0), V(major, minor + 1, 0)>>

\* faulty variant: the range has no upper end
minorRange_open(major) == <<"gte", V(major, 0, 0)>>

\* `>=${major}.0.0 <${major + 1}.0.0`
minorRange(major) == <<"below", V(major, 0, 0), V(major + 1, 0, 0)>>

RECURSIVE SiblingsFrom(_, _, _, _)
SiblingsFrom(cachedVersions, i, stableAvailable, result) ==
  IF i > Len(cachedVersions) THEN result
  ELSE LET cv == cachedVersions[i]
           cachedSet == SeqToSet(cachedVersions)
           latestPatch == MaxSatisfying(stableAvailable,
                                        patchRange(cv[1], cv[2]))
           latestMinor == MaxSatisfying(stableAvailable, minorRange(cv[1]))
           r1 == IF latestPatch # NoVersion /\ ~cachedSetHas(cachedSet, latestPatch)
                 THEN AddOnce(result, latestPatch) ELSE result
           r2 == IF latestMinor # NoVersion /\ ~cachedSetHas(cachedSet, latestMinor)
                 THEN AddOnce(r1, latestMinor) ELSE r1
       IN SiblingsFrom(cachedVersions, i + 1, stableAvailable, r2)

findSiblingVersions(cachedVersions, availableVersions) ==
  SiblingsFrom(cachedVersions, 1,
               {v \in availableVersions : IsStable(v)}, <<>>)

\* addFirstLayerTarget
addFirstLayerTarget(layer, target) ==
  IF \E i \in DOMAIN layer :
        /\ layer[i].name = target.name
        /\ layer[i].versionRange = target.versionRange
  THEN layer ELSE Append(layer, target)

RECURSIVE AddAll(_, _, _, _, _)
AddAll(layer, name, versions, requiredBy, reason) ==
  IF versions = <<>> THEN layer
  ELSE AddAll(addFirstLayerTarget(layer,
                 Target(name, <<"exact", Head(versions)>>, requiredBy, reason)),
              name, Tail(versions), requiredBy, reason)

\* first loop over cached: every local version is a root
RECURSIVE SeedLocal(_, _)
SeedLocal(layer, i) ==
  IF i > Len(cached) THEN layer
  ELSE SeedLocal(AddAll(layer, cached[i].name, cached[i].versions,
                        <<"local-cache">>, "missing-dependency"), i + 1)

\* second loop over cached: latest and sibling versions as additional roots
RECURSIVE SeedExtra(_, _)
SeedExtra(layer, i) ==
  IF i > Len(cached) THEN layer
  ELSE LET pkg == cached[i]
       IN IF pkg.name \notin metadataNames THEN SeedExtra(layer, i + 1)
          ELSE
            LET meta == registry[pkg.name]
                latest == IF "latest" \in DOMAIN meta.distTags
                          THEN meta.distTags["latest"] ELSE NoVersion
                l1 == IF /\ options.updateToLatest
                         /\ latest # NoVersion
                         /\ latest \notin SeqToSet(pkg.versions)
                      THEN addFirstLayerTarget(layer,
                             Target(pkg.name, <<"exact", latest>>,
                                    <<"update-to-latest">>, "newer-version"))
                      ELSE layer
                l2 == IF options.completeSiblingVersions
                      THEN AddAll(l1, pkg.name,
                             findSiblingVersions(pkg.versions,
                                                 DOMAIN meta.versions),
                             <<"complete-sibling-versions">>, "sibling-version")
                      ELSE l1
            IN SeedExtra(l2, i + 1)

\* const maxDepth = options.maxDepth || 50
EffectiveMaxDepth(opts) ==
  IF opts.maxDepth = 0 THEN DefaultMaxDepth ELSE opts.maxDepth

\* pLimit(config.concurrency || 5)
ConcurrencyLimit == IF concurrency = 0 THEN DefaultConcurrency ELSE concurrency

\* [...new Set(currentLayer.map(p => p.name))]
RECURSIVE DistinctNames(_, _)
DistinctNames(layer, acc) ==
  IF layer = <<>> THEN acc
  ELSE DistinctNames(Tail(layer), AddOnce(acc, Head(layer).name))

Uncached(names) == SelectSeq(names, LAMBDA n : n \notin packumentCache)

\* the loop over the dependencies of one version: acc = [next, seen]
RECURSIVE EnqueueDeps(_, _, _)
EnqueueDeps(deps, key, acc) ==
  IF deps = <<>> THEN acc
  ELSE LET depName == Head(deps)[1]
           depRange == Head(deps)[2]
           hasSatisfyingVersion ==
             IsCachedName(depName) /\
             hasMatchingVersion(CachedVersions(depName), depRange)
           nextKey == <<depName, depRange>>
       IN IF hasSatisfyingVersion \/ nextKey \in acc.seen
          THEN EnqueueDeps(Tail(deps), key, acc)
          ELSE EnqueueDeps(Tail(deps), key,
                 [next |-> Append(acc.next,
                             Target(depName, depRange, key, "none")),
                  seen |-> acc.seen \cup {nextKey}])

----------------------------------------------------------------------------
(* analyzeMissingDependencies: the steps of one call *)

FailureCount ==
  Cardinality({i \in DOMAIN promises :
     promises[i].name \notin InvalidNames /\
     promises[i].state \in {NoData, Thrown}})

\* seeding of the first layer
Seed ==
  /\ pc = "start"
  /\ currentLayer' = SeedExtra(SeedLocal(<<>>, 1), 1)
  /\ depth' = 0
  /\ pc' = "loop"
  /\ UNCHANGED <<cacheVars, clients, inputVars, otherVars, histVars, status, idx,
                 nextLayer, nextLayerSeen, processed, analyzedDeps, missing,
                 totalProcessed, uniqueMissing, queue, active, awaiting>>

\* while (currentLayer.length > 0 && depth <= maxDepth) and the synchronous
\* part of prefetchPackuments
LoopHead ==
  /\ pc = "loop"
  /\ IF currentLayer # <<>> /\ depth <= EffectiveMaxDepth(options)
     THEN /\ layers' = layers + 1
          /\ entered' = entered + Len(currentLayer)
          /\ queue' = Uncached(DistinctNames(currentLayer, <<>>))
          /\ pc' = IF queue' = <<>> THEN "process" ELSE "prefetch"
     ELSE /\ pc' = "dedup"
          /\ UNCHANGED <<layers, entered, queue>>
  /\ idx' = 1
  /\ nextLayer' = <<>>
  /\ nextLayerSeen' = {}
  /\ UNCHANGED <<cacheVars, clients, inputVars, otherVars, status, currentLayer,
                 processed, analyzedDeps, missing, depth, totalProcessed,
                 uniqueMissing, active, awaiting, expanded, resolutions,
                 unresolved>>

\* faulty variant: the layer goes on as soon as one prefetch task has returned
PrefetchComplete_first(q, a) == TRUE

\* await Promise.all(tasks): every task has been started and has returned
PrefetchComplete(q, a) == q = <<>> /\ a = {}

CanStartTask ==
  pc = "prefetch" /\ queue # <<>> /\ Cardinality(active) < ConcurrencyLimit

HasSettledTask == \E id \in active : promises[id].state # "pending"

\* p-limit starts the next queued task: it calls getPackument(name)
PrefetchStart ==
  /\ CanStartTask
  /\ getPackument(Head(queue))
  /\ active' = IF getPackumentReturn(Head(queue)) = 0 THEN active
               ELSE active \cup {getPackumentReturn(Head(queue))}
  /\ queue' = Tail(queue)
  /\ pc' = IF PrefetchComplete(queue', active') THEN "process" ELSE pc
  /\ UNCHANGED <<clients, inputVars, otherVars, histVars, status, currentLayer, idx,
                 nextLayer, nextLayerSeen, processed, analyzedDeps, missing,
                 depth, totalProcessed, uniqueMissing, awaiting>>

\* the registry answers a pending request of this call
RunFetchSettle(id, ok) ==
  /\ pc \in {"prefetch", "awaitResolve"}
  /\ ~CanStartTask
  /\ ~HasSettledTask
  /\ ok \/ FailureCount < MaxFailures
  /\ FetchSettle(id, ok)
  /\ UNCHANGED <<clients, runVars, otherVars>>

\* a prefetch task's await returns; Promise.all resolves after the last one
\* and rejects with the first rejection
PrefetchTaskDone(id) ==
  /\ pc = "prefetch"
  /\ id \in active
  /\ promises[id].state # "pending"
  /\ active' = active \ {id}
  /\ IF promises[id].state = Thrown
     THEN pc' = "done" /\ status' = "threw"
     ELSE /\ pc' = IF PrefetchComplete(queue, active') THEN "process" ELSE pc
          /\ UNCHANGED status
  /\ UNCHANGED <<cacheVars, clients, inputVars, otherVars, histVars, currentLayer, idx,
                 nextLayer, nextLayerSeen, processed, analyzedDeps, missing,
                 depth, totalProcessed, uniqueMissing, queue, awaiting>>

\* the body of the try block once the packument of t.name is in the cache
ProcessResolved(t) ==
  LET packument == registry[t.name]
      resolvedVersion == ResolveIn(packument, t.versionRange)
      key == TargetKey(t.name, t.versionRange, resolvedVersion)
      versionManifest == resolvedVersion \in DOMAIN packument.versions
      acc == IF versionManifest
             THEN EnqueueDeps(
                    collectDependencies(packument.versions[resolvedVersion],
                                        options),
                    key, [next |-> nextLayer, seen |-> nextLayerSeen])
             ELSE [next |-> nextLayer, seen |-> nextLayerSeen]
  IN IF resolvedVersion = NoVersion
     THEN /\ unresolved' = TRUE
          /\ UNCHANGED <<processed, analyzedDeps, missing, nextLayer,
                         nextLayerSeen, expanded, resolutions>>
     ELSE
       /\ resolutions' = resolutions \cup
            {[name |-> t.name, range |-> t.versionRange,
              version |-> resolvedVersion]}
       /\ UNCHANGED unresolved
       /\ IF key \in processed
          THEN UNCHANGED <<processed, analyzedDeps, missing, nextLayer,
                           nextLayerSeen, expanded>>
          ELSE
            /\ processed' = processed \cup {key}
            /\ missing' =
                 IF hasLocalVersion(t.name, resolvedVersion) THEN missing
                 ELSE Append(missing,
                        [name |-> t.name, version |-> resolvedVersion,
                         reason |-> IF t.reason # "none" THEN t.reason
                                    ELSE IF depth = 0 THEN "newer-version"
                                    ELSE "missing-dependency",
                         requiredBy |-> t.requiredBy])
            /\ IF key \notin analyzedDeps
               THEN /\ analyzedDeps' = analyzedDeps \cup {key}
                    /\ nextLayer' = acc.next
                    /\ nextLayerSeen' = acc.seen
                    /\ expanded' = IF versionManifest
                                   THEN Append(expanded,
                                               <<t.name, resolvedVersion>>)
                                   ELSE expanded
               ELSE UNCHANGED <<analyzedDeps, nextLayer, nextLayerSeen,
                                expanded>>

\* one iteration of the for loop, up to the await in resolveVersionFromCache
ProcessTarget ==
  /\ pc = "process"
  /\ idx <= Len(currentLayer)
  /\ totalProcessed' = totalProcessed + 1
  /\ LET t == currentLayer[idx]
     IN IF t.name \in packumentCache
        THEN /\ ProcessResolved(t)
             /\ idx' = idx + 1
             /\ UNCHANGED <<cacheVars, pc, awaiting>>
        ELSE /\ getPackument(t.name)
             /\ awaiting' = getPackumentReturn(t.name)
             /\ pc' = "awaitResolve"
             /\ UNCHANGED <<idx, processed, analyzedDeps, missing, nextLayer,
                            nextLayerSeen, expanded, resolutions, unresolved>>
  /\ UNCHANGED <<clients, inputVars, otherVars, status, currentLayer, depth,
                 uniqueMissing, queue, active, layers, entered>>

\* resolveVersionFromCache resumes with the fetched packument, with null, or
\* with a rejection that the catch of the loop body swallows
ResolveResume ==
  /\ pc = "awaitResolve"
  /\ promises[awaiting].state # "pending"
  /\ IF promises[awaiting].state = "ok"
     THEN ProcessResolved(currentLayer[idx])
     ELSE /\ unresolved' = TRUE
          /\ UNCHANGED <<processed, analyzedDeps, missing, nextLayer,
                         nextLayerSeen, expanded, resolutions>>
  /\ idx' = idx + 1
  /\ awaiting' = 0
  /\ pc' = "process"
  /\ UNCHANGED <<cacheVars, clients, inputVars, otherVars, status, currentLayer, depth,
                 totalProcessed, uniqueMissing, queue, active, layers,
                 entered>>

\* currentLayer = nextLayer; depth++
LayerEnd ==
  /\ pc = "process"
  /\ idx > Len(currentLayer)
  /\ currentLayer' = nextLayer
  /\ depth' = depth + 1
  /\ pc' = "loop"
  /\ UNCHANGED <<cacheVars, clients, inputVars, otherVars, histVars, status, idx,
                 nextLayer, nextLayerSeen, processed, analyzedDeps, missing,
                 totalProcessed, uniqueMissing, queue, active, awaiting>>

\* const uniqueMissing = this.deduplicatePackages(missing); return
AnalyzeReturn ==
  /\ pc = "dedup"
  /\ uniqueMissing' = deduplicatePackages(missing)
  /\ status' = "returned"
  /\ pc' = "done"
  /\ UNCHANGED <<cacheVars, clients, inputVars, otherVars, histVars, currentLayer, idx,
                 nextLayer, nextLayerSeen, processed, analyzedDeps, missing,
                 depth, totalProcessed, queue, active, awaiting>>

----------------------------------------------------------------------------
(* Specifications *)

\* no task created yet
InitTasks ==
  /\ ingestTasks = <<>>
  /\ execs = <<>>

\* no readPackage call under way
InitOfflineIdle ==
  /\ offData = [name |-> "pkg", offline |-> FALSE, hasProxy |-> FALSE,
                versions |-> {}, latest |-> <<>>]
  /\ offItems = {}
  /\ offCall = [pc |-> "idle", offline |-> FALSE, err |-> FALSE,
                versions |-> {}, latest |-> <<>>]

\* no importPackage call under way
InitImportIdle ==
  /\ impFiles = <<>>
  /\ impOptions = [validateChecksum |-> FALSE, overwrite |-> FALSE]
  /\ impPc = "idle"
  /\ impIndex = 0
  /\ impErrors = <<>>
  /\ impStorage = {}
  /\ impCounts = [imported |-> 0, skipped |-> 0, failed |-> 0]

InitExtra == InitTasks /\ InitOfflineIdle /\ InitImportIdle

\* no download call and no findSiblingVersions call under way
InitOther ==
  /\ dlMode = "none"
  /\ dlStatus = "idle"
  /\ plan = <<>>
  /\ limit = 0
  /\ tasks = <<>>
  /\ tarballs = {}
  /\ results = <<>>
  /\ failedPackages = <<>>
  /\ batchIndex = 0
  /\ sibCached = <<>>
  /\ sibAvailable = {}
  /\ sibResult = [done |-> FALSE, versions |-> <<>>]
  /\ clearedAt = -1

Pkg(name, versions) == [name |-> name, versions |-> versions]

\* local store snapshots (scanAllPackages)
CachedChoices ==
  { << Pkg("P", <<V(1,0,0)>>) >>,
    << Pkg("P", <<V(1,0,0)>>), Pkg("Q", <<V(1,0,0)>>) >>,
    << Pkg("Q", <<V(1,0,0)>>), Pkg("D", <<V(1,0,0)>>),
       Pkg("E", <<V(1,0,0)>>) >>,
    << Pkg("P", <<V(1,0,0), V(1,0,1)>>), Pkg("E", <<V(2,0,0)>>) >> }

CachedNames(c) == {c[i].name : i \in DOMAIN c}

\* maxDepth comes from the request body or config.sync unchecked, so it may
\* be negative; 0 stands for 0 and for "not given" alike (options.maxDepth || 50)
OptionChoices ==
  [updateToLatest : BOOLEAN, completeSiblingVersions : BOOLEAN,
   includeDev : BOOLEAN, includePeer : BOOLEAN, includeOptional : BOOLEAN,
   maxDepth : -1..MaxDepthOpt]

InitLocals ==
  /\ status = "running"
  /\ currentLayer = <<>>
  /\ idx = 1
  /\ nextLayer = <<>>
  /\ nextLayerSeen = {}
  /\ processed = {}
  /\ analyzedDeps = {}
  /\ depth = 0
  /\ totalProcessed = 0
  /\ uniqueMissing = <<>>
  /\ queue = <<>>
  /\ active = {}
  /\ awaiting = 0
  /\ expanded = <<>>
  /\ resolutions = {}
  /\ layers = 0
  /\ entered = 0
  /\ unresolved = FALSE

\* a call of analyzeMissingDependencies after refreshMetadata: the names whose
\* refresh succeeded are in metadata and in the packument cache
Init ==
  /\ \E dangling \in BOOLEAN : registry = Registry(dangling)
  /\ cached \in CachedChoices
  /\ metadataNames \in SUBSET CachedNames(cached)
  /\ options \in OptionChoices
  /\ concurrency \in 0..MaxConcurrencyOpt
  /\ packumentCache = metadataNames
  /\ packumentInflight = [n \in Names |-> 0]
  /\ promises = <<>>
  /\ clients = [c \in 1..NumClients |-> IdleClient]
  /\ pc = "start"
  /\ missing = <<>>
  /\ InitLocals
  /\ InitOther
  /\ InitExtra

Next ==
  \/ Seed
  \/ LoopHead
  \/ PrefetchStart
  \/ \E id \in DOMAIN promises, ok \in BOOLEAN : RunFetchSettle(id, ok)
  \/ \E id \in DOMAIN promises : PrefetchTaskDone(id)
  \/ ProcessTarget
  \/ ResolveResume
  \/ LayerEnd
  \/ AnalyzeReturn

Spec == Init /\ [][Next]_vars

\* getPackument under concurrent callers
InitCache ==
  /\ registry = Registry(FALSE)
  /\ cached = <<>>
  /\ metadataNames = {}
  /\ options = [updateToLatest |-> FALSE, completeSiblingVersions |-> FALSE,
                includeDev |-> FALSE, includePeer |-> FALSE,
                includeOptional |-> FALSE, maxDepth |-> 0]
  /\ concurrency = 0
  /\ packumentCache = {}
  /\ packumentInflight = [n \in Names |-> 0]
  /\ promises = <<>>
  /\ clients = [c \in 1..NumClients |-> IdleClient]
  /\ pc = "idle"
  /\ missing = <<>>
  /\ InitLocals
  /\ InitOther
  /\ InitExtra

ClientNames == {"D", "E", "B"}

NextCache ==
  \/ \E c \in 1..NumClients, n \in ClientNames : ClientRequest(c, n)
  \/ \E id \in DOMAIN promises, ok \in BOOLEAN : ClientSettle(id, ok)
  \/ \E c \in 1..NumClients : ClientResume(c)

SpecCache == InitCache /\ [][NextCache]_vars

\* deduplicatePackages on every list of plan entries
DedupEntries ==
  [name : {"D", "E"}, version : {V(1,0,0), V(1,2,0)},
   reason : {"missing-dependency", "newer-version"},
   requiredBy : {<<"local-cache">>}]

RECURSIVE SeqsUpTo(_, _)
SeqsUpTo(S, n) ==
  IF n = 0 THEN {<<>>}
  ELSE LET shorter == SeqsUpTo(S, n - 1)
       IN shorter \cup {Append(q, e) : q \in shorter, e \in S}

InitDedup ==
  /\ registry = Registry(FALSE)
  /\ cached = <<>>
  /\ metadataNames = {}
  /\ options = [updateToLatest |-> FALSE, completeSiblingVersions |-> FALSE,
                includeDev |-> FALSE, includePeer |-> FALSE,
                includeOptional |-> FALSE, maxDepth |-> 0]
  /\ concurrency = 0
  /\ packumentCache = {}
  /\ packumentInflight = [n \in Names |-> 0]
  /\ promises = <<>>
  /\ clients = [c \in 1..NumClients |-> IdleClient]
  /\ pc = "dedup"
  /\ missing \in SeqsUpTo(DedupEntries, MaxDedupLen)
  /\ InitLocals
  /\ InitOther
  /\ InitExtra

NextDedup == AnalyzeReturn

SpecDedup == InitDedup /\ [][NextDedup]_vars

----------------------------------------------------------------------------
(* Properties *)

Done == pc = "done"

PlanSet == {uniqueMissing[i] : i \in DOMAIN uniqueMissing}

\* the local store snapshot holds name@version
HeldLocally(name, version) ==
  \E i \in DOMAIN cached :
    cached[i].name = name /\ version \in SeqToSet(cached[i].versions)

\* name@version pairs held after the plan is downloaded
HeldAfter ==
  UNION {{<<cached[i].name, v>> : v \in SeqToSet(cached[i].versions)} :
           i \in DOMAIN cached} \cup
  {<<e.name, e.version>> : e \in PlanSet}

Published(name, version) ==
  name \in DOMAIN registry /\ version \in DOMAIN registry[name].versions

\* the (dep, range) entries of the dependency fields the options select
SelectedDeps(manifest, opts) ==
  SeqToSet(manifest.dependencies) \cup
  (IF opts.includeDev THEN SeqToSet(manifest.devDependencies) ELSE {}) \cup
  (IF opts.includePeer THEN SeqToSet(manifest.peerDependencies) ELSE {}) \cup
  (IF opts.includeOptional THEN SeqToSet(manifest.optionalDependencies)
   ELSE {})

\* version w of dep meets the declared range: semver satisfaction, or the
\* target of the dist-tag the range names
Meets(dep, w, range) ==
  \/ Satisfies(w, range)
  \/ /\ range[1] = "tag"
     /\ dep \in DOMAIN registry
     /\ range[2] \in DOMAIN registry[dep].distTags
     /\ registry[dep].distTags[range[2]] = w

AllFetchesSucceeded == \A i \in DOMAIN promises : promises[i].state = "ok"

DependencyClosed ==
  \A nv \in HeldAfter :
    Published(nv[1], nv[2]) =>
      \A d \in SelectedDeps(registry[nv[1]].versions[nv[2]], options) :
        \E w \in {x[2] : x \in {y \in HeldAfter : y[1] = d[1]}} :
          Meets(d[1], w, d[2])

\* C1: when the analysis returns after the BFS ran out of targets and every
\* packument fetch and version resolution succeeded, every selected dependency
\* of every cached or planned name@version is met by a cached or planned
\* version.
C1_DependencyClosed ==
  (Done /\ status = "returned" /\ currentLayer = <<>>
        /\ AllFetchesSucceeded /\ ~unresolved)
    => DependencyClosed

\* C2: the returned plan has no two entries with the same (name, version).
C2_PlanUnique ==
  Done => \A i, j \in DOMAIN uniqueMissing :
            i # j => PkgKey(uniqueMissing[i]) # PkgKey(uniqueMissing[j])

C2_Witness ==
  Done /\ Len(uniqueMissing) >= 2 /\ Len(uniqueMissing) < Len(missing)

\* C3: every version that version resolution returns is a key of the versions
\* map of the packument of that name.
C3_ResolutionSound ==
  \A r \in resolutions : Published(r.name, r.version)

\* C4: within one run the dependencies of a name@version pair are extracted
\* at most once.
C4_ExpandedOnce ==
  \A i, j \in DOMAIN expanded : i # j => expanded[i] # expanded[j]

\* a pair reached through two different ranges, and expanded
C4_Witness ==
  /\ Done
  /\ \E r1, r2 \in resolutions :
       /\ r1.name = r2.name /\ r1.version = r2.version
       /\ r1.range # r2.range
       /\ \E i \in DOMAIN expanded : expanded[i] = <<r1.name, r1.version>>

\* C5: with maxDepth = D the loop runs at most D+1 layers; with maxDepth = 0
\* only the seed layer runs and nothing required by a seeded package is
\* planned.
C5_DepthBound ==
  /\ layers <= options.maxDepth + 1
  /\ options.maxDepth = 0 =>
       \A i \in DOMAIN missing : Len(missing[i].requiredBy) = 1

\* C6: requests for a name made while a fetch of that name is pending attach
\* to that fetch: one registry call is pending per name, no such request
\* issues a call, and every requester resumes with the outcome of the fetch
\* it is attached to.
C6_SingleFlight ==
  /\ \A n \in Names : Cardinality(PendingFor(n)) <= 1
  /\ \A c \in DOMAIN clients :
       (clients[c].pc # "idle" /\ ~clients[c].cachedAtReq
          /\ clients[c].pendingAtReq # {})
         => ~clients[c].issued /\ clients[c].promise \in clients[c].pendingAtReq
  /\ \A c \in DOMAIN clients :
       (clients[c].pc = "done" /\ clients[c].promise # 0)
         => clients[c].result = promises[clients[c].promise].state

\* three requests of one name, one registry call, one result for all
C6_Witness ==
  \E n \in Names :
    /\ RegistryCalls(n) = 1
    /\ Cardinality({c \in DOMAIN clients :
          /\ clients[c].pc = "done" /\ clients[c].name = n
          /\ clients[c].promise = 1 /\ clients[c].result = "ok"}) >= 3
    /\ \E c \in DOMAIN clients : clients[c].pendingAtReq # {}

\* C7: a failed fetch stores nothing in the cache, its requesters get null
\* and no exception, and a later request of the name issues a new registry
\* call.
C7_FailedFetchRetried ==
  /\ \A n \in packumentCache :
       \E i \in DOMAIN promises :
         promises[i].name = n /\ promises[i].state = "ok"
  /\ \A c \in DOMAIN clients :
       clients[c].pc = "done" => clients[c].result \in {"ok", NoData}
  /\ \A c \in DOMAIN clients :
       (clients[c].pc # "idle" /\ clients[c].failedBefore
          /\ ~clients[c].cachedAtReq /\ clients[c].pendingAtReq = {})
         => clients[c].issued

\* C8: a failing fetch or resolution does not end the call: no exception
\* escapes, every target of every layer entered is visited, and the call
\* returns a plan.
C8_RunSurvivesFailures ==
  /\ status # "threw"
  /\ Done => status = "returned" /\ totalProcessed = entered

\* a fetch failed in some layer, a later layer ran, and a plan came back
C8_Witness ==
  /\ Done /\ status = "returned"
  /\ \E i \in DOMAIN promises : promises[i].state = NoData
  /\ layers >= 2
  /\ uniqueMissing # <<>>

\* C9: a selected dependency (D, r) of a cached P@v, with D absent from the
\* local store, D's packument fetched and holding a version satisfying r, and
\* maxDepth >= 1, is in the plan at the highest satisfying version, with
\* reason missing-dependency and requiredBy a processed name@version that
\* declared D with range r.
C9_MissingDependencyPlanned ==
  (Done /\ status = "returned" /\ options.maxDepth >= 1) =>
    \A i \in DOMAIN cached : \A v \in SeqToSet(cached[i].versions) :
      Published(cached[i].name, v) =>
        \A d \in SelectedDeps(registry[cached[i].name].versions[v], options) :
          (/\ ~IsCachedName(d[1])
           /\ d[1] \in packumentCache
           /\ MaxSatisfying(DOMAIN registry[d[1]].versions, d[2]) # NoVersion)
          =>
          \E e \in PlanSet :
            /\ e.name = d[1]
            /\ e.version = MaxSatisfying(DOMAIN registry[d[1]].versions, d[2])
            /\ e.reason = "missing-dependency"
            /\ e.requiredBy \in processed
            /\ Len(e.requiredBy) = 2
            /\ Published(e.requiredBy[1], e.requiredBy[2])
            /\ d \in SelectedDeps(
                 registry[e.requiredBy[1]].versions[e.requiredBy[2]], options)

\* C10: no plan entry names a (name, version) the local store snapshot holds.
C10_PlanNotCached ==
  /\ \A i \in DOMAIN missing : ~HeldLocally(missing[i].name, missing[i].version)
  /\ \A e \in PlanSet : ~HeldLocally(e.name, e.version)

\* a dependency range resolved to a version the store holds, and a plan with
\* other entries was returned
C10_Witness ==
  /\ Done /\ uniqueMissing # <<>>
  /\ \E r \in resolutions :
       r.range[1] # "exact" /\ HeldLocally(r.name, r.version)

----------------------------------------------------------------------------
(* Layer barrier *)

LayerNames(layer) == {layer[i].name : i \in DOMAIN layer}

\* C11: layers are strict barriers.  Every registry request a run issues is
\* for a name of the current layer; a target that is counted, resolved or
\* expanded is the current layer's target at idx and the layer's prefetch has
\* completed; and the next layer replaces the current one only after every
\* target of the current layer was processed, with no prefetch task queued
\* or running and no resolution awaited.
C11_LayerBarrier ==
  [][ /\ Len(promises') > Len(promises) =>
           promises'[Len(promises')].name \in LayerNames(currentLayer)
      /\ (totalProcessed' # totalProcessed \/ resolutions' # resolutions \/
          expanded' # expanded \/ nextLayer' # nextLayer) /\ pc # "loop" =>
           /\ pc \in {"process", "awaitResolve"}
           /\ idx <= Len(currentLayer)
           /\ queue = <<>> /\ active = {}
           /\ \A r \in resolutions' \ resolutions :
                r.name = currentLayer[idx].name /\
                r.range = currentLayer[idx].versionRange
           /\ expanded' # expanded =>
                expanded'[Len(expanded')][1] = currentLayer[idx].name
      /\ currentLayer' # currentLayer /\ pc # "start" =>
           /\ currentLayer' = nextLayer
           /\ idx > Len(currentLayer)
           /\ queue = <<>> /\ active = {}
           /\ awaiting = 0
    ]_vars

\* the second layer is being prefetched after the first one was expanded
C11_Witness ==
  layers >= 2 /\ pc = "prefetch" /\ active # {} /\ expanded # <<>>

----------------------------------------------------------------------------
(* The download engine: PackageDownloader.downloadAll (called by          *)
(* executeSync) and IngestMiddleware.executeDownload                       *)

MaxPlanLen == 3

\* program constant: the upper end of getConcurrency's clamp
MaxConcurrency == 50

Min(a, b) == IF a < b THEN a ELSE b

Max(a, b) == IF a < b THEN b ELSE a

\* p-limit throws a TypeError unless the concurrency is an integer >= 1
pLimitThrows(n) == n < 1

\* (this.config as IngestConfig).concurrency || 5
DownloadConcurrency ==
  IF concurrency = 0 THEN DefaultConcurrency ELSE concurrency

\* PackageDownloader.getConcurrency
getConcurrency ==
  IF concurrency <= 0 THEN DefaultConcurrency
  ELSE Max(1, Min(MaxConcurrency, concurrency))

\* package names are strings, modelled by their tokens: "p" is <<"p">> and
\* "@s/p" is <<"@", "s", "/", "p">>
PlanNames == << <<"p">>, <<"@", "s", "/", "p">>, <<"q">> >>

PlanItem(k) ==
  [name |-> PlanNames[((k - 1) % Len(PlanNames)) + 1],
   version |-> V(1, (k - 1) \div Len(PlanNames), 0)]

\* String.prototype.replace(from, to) with a string pattern: the first
\* occurrence only
RECURSIVE ReplaceFirst(_, _, _)
ReplaceFirst(str, from, to) ==
  IF str = <<>> THEN <<>>
  ELSE IF Head(str) = from THEN to \o Tail(str)
  ELSE <<Head(str)>> \o ReplaceFirst(Tail(str), from, to)

\* path.join(this.storagePath, packageName)
getPackagePath(packageName) == <<"storage">> \o packageName

\* `${baseName}-${version}.tgz`
getTarballName(packageName, version) ==
  ReplaceFirst(ReplaceFirst(packageName, "@", <<>>), "/", <<"-">>)
    \o <<"-", version, ".tgz">>

\* path.join(tarballDir, tarballName)
TarballPath(pkg) ==
  getPackagePath(pkg.name) \o <<"/">> \o getTarballName(pkg.name, pkg.version)

NewTask == [pc |-> "queued", payload |-> "none", written |-> FALSE]

\* faulty variant: a task that failed keeps its slot of the pool
Running_failedHolds(t) ==
  t.pc \in {"mkdir", "tarball", "write", "manifest", "meta", "failed"}

\* the task was started and its promise is still pending
Running(t) == t.pc \in {"mkdir", "tarball", "write", "manifest", "meta"}

Settled(t) == t.pc \in {"ok", "failed"}

\* p-limit's activeCount
ActiveCount == Cardinality({k \in DOMAIN tasks : Running(tasks[k])})

\* faulty variant: the pool starts every queued task at once
PoolHasRoom_unbounded(n) == TRUE

\* p-limit starts a queued task while activeCount < concurrency
PoolHasRoom(n) == n < limit

\* faulty variant: downloadPackage lets an empty payload through
IsEmptyPayload_never(buf) == FALSE

\* !tarballBuffer || tarballBuffer.length === 0
IsEmptyPayload(buf) == buf = "empty"

\* faulty variant: Promise.all, which rejects when a task rejected
allSettled_all(ts) ==
  IF \E k \in DOMAIN ts : ts[k].pc = "failed" THEN "rejected" ELSE "fulfilled"

\* await Promise.allSettled(tasks) never rejects
allSettled(ts) == "fulfilled"

\* packages.slice(i, j) for 0 <= i <= j, as 1-based positions
Slice(i, j) == {k \in DOMAIN plan : i < k /\ k <= j}

Batch == Slice(batchIndex, batchIndex + limit)

notDownload == <<cacheVars, clients, runVars, siblingVars, clearedAt,
                 extraVars>>

\* the plugin is loaded: its constructor creates the DependencyResolver,
\* whose constructor calls pLimit(config.concurrency || 5)
Construct ==
  /\ dlStatus = "idle"
  /\ dlMode # "none"
  /\ dlStatus' = IF pLimitThrows(ConcurrencyLimit) THEN "rejected" ELSE "ready"
  /\ UNCHANGED <<dlMode, plan, limit, tasks, tarballs, results,
                 failedPackages, batchIndex, notDownload>>

\* downloadAll(packagesToDownload, config.concurrency || 5) up to its await:
\* pLimit(concurrency), then every package is handed to the limiter
DownloadAllCall ==
  /\ dlStatus = "ready"
  /\ dlMode = "downloadAll"
  /\ limit' = DownloadConcurrency
  /\ results' = <<>>
  /\ IF pLimitThrows(limit')
     THEN dlStatus' = "threw" /\ UNCHANGED tasks
     ELSE dlStatus' = "running" /\ tasks' = [k \in DOMAIN plan |-> NewTask]
  /\ UNCHANGED <<dlMode, plan, tarballs, failedPackages, batchIndex,
                 notDownload>>

\* p-limit starts the task at the head of its queue: downloadPackage runs up
\* to await mkdir
TaskStart(k) ==
  /\ dlStatus = "running"
  /\ dlMode = "downloadAll"
  /\ tasks[k].pc = "queued"
  /\ \A j \in 1..(k - 1) : tasks[j].pc # "queued"
  /\ PoolHasRoom(ActiveCount)
  /\ tasks' = [tasks EXCEPT ![k].pc = "mkdir"]
  /\ UNCHANGED <<dlMode, dlStatus, plan, limit, tarballs, results,
                 failedPackages, batchIndex, notDownload>>

\* executeDownload(taskId, packages) up to the batch loop
ExecuteDownloadCall ==
  /\ dlStatus = "ready"
  /\ dlMode = "executeDownload"
  /\ limit' = DownloadConcurrency
  /\ results' = <<>>
  /\ failedPackages' = <<>>
  /\ batchIndex' = 0
  /\ tasks' = [k \in DOMAIN plan |-> NewTask]
  /\ dlStatus' = "running"
  /\ UNCHANGED <<dlMode, plan, tarballs, notDownload>>

\* one iteration of the batch loop up to await Promise.all(batchPromises):
\* every package of the slice runs downloadPackage up to await mkdir
BatchStart ==
  /\ dlStatus = "running"
  /\ dlMode = "executeDownload"
  /\ batchIndex < Len(plan)
  /\ \A k \in Batch : tasks[k].pc = "queued"
  /\ tasks' = [k \in DOMAIN tasks |->
                 IF k \in Batch THEN [tasks[k] EXCEPT !.pc = "mkdir"]
                 ELSE tasks[k]]
  /\ UNCHANGED <<dlMode, dlStatus, plan, limit, tarballs, results,
                 failedPackages, batchIndex, notDownload>>

\* faulty variant: the catch marks the status and does not record the package
Fail_unrecorded(k, ts) ==
  /\ tasks' = [ts EXCEPT ![k].pc = "failed"]
  /\ UNCHANGED <<results, failedPackages>>

\* downloadPackage of item k threw: downloadAll's task logs and rethrows,
\* executeDownload's catch marks the status and records the package
Fail(k, ts) ==
  /\ tasks' = [ts EXCEPT ![k].pc = "failed"]
  /\ failedPackages' = IF dlMode = "executeDownload"
                       THEN Append(failedPackages, k) ELSE failedPackages
  /\ UNCHANGED results

\* downloadPackage of item k returned: downloadAll's task pushes the result,
\* executeDownload goes on to save the metadata
Succeed(k) ==
  /\ IF dlMode = "downloadAll"
     THEN /\ tasks' = [tasks EXCEPT ![k].pc = "ok"]
          /\ results' = Append(results, [package |-> k, status |-> "success"])
     ELSE /\ tasks' = [tasks EXCEPT ![k].pc = "meta"]
          /\ UNCHANGED results
  /\ UNCHANGED failedPackages

\* await mkdir(tarballDir, {recursive: true}) returns or throws; on return
\* pacote.tarball is called
MkdirReturn(k, ok) ==
  /\ dlStatus = "running"
  /\ tasks[k].pc = "mkdir"
  /\ IF ok
     THEN /\ tasks' = [tasks EXCEPT ![k].pc = "tarball"]
          /\ UNCHANGED <<results, failedPackages>>
     ELSE Fail(k, tasks)
  /\ UNCHANGED <<dlMode, dlStatus, plan, limit, tarballs, batchIndex,
                 notDownload>>

\* await pacote.tarball returns a buffer, an empty buffer, or throws; a
\* non-empty buffer is hashed and writeFile is called
TarballReturn(k, outcome) ==
  /\ dlStatus = "running"
  /\ tasks[k].pc = "tarball"
  /\ IF outcome = "error" \/ IsEmptyPayload(outcome)
     THEN Fail(k, [tasks EXCEPT ![k].payload = outcome])
     ELSE /\ tasks' = [tasks EXCEPT ![k].payload = outcome, ![k].pc = "write"]
          /\ UNCHANGED <<results, failedPackages>>
  /\ UNCHANGED <<dlMode, dlStatus, plan, limit, tarballs, batchIndex,
                 notDownload>>

\* await writeFile(tarballPath, tarballBuffer) returns or throws; on return
\* getManifest(spec, true) is called
WriteReturn(k, ok) ==
  /\ dlStatus = "running"
  /\ tasks[k].pc = "write"
  /\ IF ok
     THEN /\ tasks' = [tasks EXCEPT ![k].written = TRUE, ![k].pc = "manifest"]
          /\ tarballs' = tarballs \cup {TarballPath(plan[k])}
          /\ UNCHANGED <<results, failedPackages>>
     ELSE Fail(k, tasks) /\ UNCHANGED tarballs
  /\ UNCHANGED <<dlMode, dlStatus, plan, limit, batchIndex, notDownload>>

\* await this.getManifest(spec, true) returns or throws
ManifestReturn(k, ok) ==
  /\ dlStatus = "running"
  /\ tasks[k].pc = "manifest"
  /\ IF ok THEN Succeed(k) ELSE Fail(k, tasks)
  /\ UNCHANGED <<dlMode, dlStatus, plan, limit, tarballs, batchIndex,
                 notDownload>>

\* executeDownload: downloadPackument and savePackument return or throw; the
\* inner catch ignores a failure
MetaReturn(k, ok) ==
  /\ dlStatus = "running"
  /\ tasks[k].pc = "meta"
  /\ tasks' = [tasks EXCEPT ![k].pc = "ok"]
  /\ UNCHANGED <<dlMode, dlStatus, plan, limit, tarballs, results,
                 failedPackages, batchIndex, notDownload>>

\* the status objects of a batch, in the order of the slice
RECURSIVE BatchResults(_, _)
BatchResults(k, last) ==
  IF k > last \/ k > Len(plan) THEN <<>>
  ELSE <<[package |-> k,
          status |-> IF tasks[k].pc = "ok" THEN "success" ELSE "failed"]>>
       \o BatchResults(k + 1, last)

\* Promise.all(batchPromises) resolves: results.push(...batchResults) and
\* i += concurrency
BatchEnd ==
  /\ dlStatus = "running"
  /\ dlMode = "executeDownload"
  /\ batchIndex < Len(plan)
  /\ \A k \in Batch : Settled(tasks[k])
  /\ results' = results \o BatchResults(batchIndex + 1, batchIndex + limit)
  /\ batchIndex' = batchIndex + limit
  /\ UNCHANGED <<dlMode, dlStatus, plan, limit, tasks, tarballs,
                 failedPackages, notDownload>>

\* the batch loop ends: executeDownload returns the DownloadBatchResult
ExecuteDownloadReturn ==
  /\ dlStatus = "running"
  /\ dlMode = "executeDownload"
  /\ batchIndex >= Len(plan)
  /\ dlStatus' = "returned"
  /\ UNCHANGED <<dlMode, plan, limit, tasks, tarballs, results,
                 failedPackages, batchIndex, notDownload>>

\* the DownloadBatchResult executeDownload builds after the batch loop
DownloadBatchResult ==
  [success |-> Len(failedPackages) = 0,
   total |-> Len(plan),
   succeeded |-> Len(plan) - Len(failedPackages),
   failed |-> Len(failedPackages),
   results |-> results,
   failedPackages |-> failedPackages]

\* await Promise.allSettled(tasks); return results
DownloadAllReturn ==
  /\ dlStatus = "running"
  /\ dlMode = "downloadAll"
  /\ \A k \in DOMAIN tasks : Settled(tasks[k])
  /\ dlStatus' = IF allSettled(tasks) = "fulfilled" THEN "returned"
                 ELSE "threw"
  /\ UNCHANGED <<dlMode, plan, limit, tasks, tarballs, results,
                 failedPackages, batchIndex, notDownload>>

\* a plugin configuration and a plan; the resolver is idle
InitDownload ==
  /\ registry = Registry(FALSE)
  /\ cached = <<>>
  /\ metadataNames = {}
  /\ options = [updateToLatest |-> FALSE, completeSiblingVersions |-> FALSE,
                includeDev |-> FALSE, includePeer |-> FALSE,
                includeOptional |-> FALSE, maxDepth |-> 0]
  /\ concurrency \in (-1..MaxConcurrencyOpt) \cup {MaxConcurrency + 1}
  /\ packumentCache = {}
  /\ packumentInflight = [n \in Names |-> 0]
  /\ promises = <<>>
  /\ clients = [c \in 1..NumClients |-> IdleClient]
  /\ pc = "idle"
  /\ missing = <<>>
  /\ InitLocals
  /\ dlMode \in {"downloadAll", "executeDownload"}
  /\ dlStatus = "idle"
  /\ \E n \in 0..MaxPlanLen : plan = [k \in 1..n |-> PlanItem(k)]
  /\ limit = 0
  /\ tasks = <<>>
  /\ tarballs = {}
  /\ results = <<>>
  /\ failedPackages = <<>>
  /\ batchIndex = 0
  /\ sibCached = <<>>
  /\ sibAvailable = {}
  /\ sibResult = [done |-> FALSE, versions |-> <<>>]
  /\ clearedAt = -1
  /\ InitExtra

NextDownload ==
  \/ Construct
  \/ DownloadAllCall
  \/ \E k \in DOMAIN tasks : TaskStart(k)
  \/ ExecuteDownloadCall
  \/ BatchStart
  \/ \E k \in DOMAIN tasks, ok \in BOOLEAN : MkdirReturn(k, ok)
  \/ \E k \in DOMAIN tasks, outcome \in {"data", "empty", "error"} :
       TarballReturn(k, outcome)
  \/ \E k \in DOMAIN tasks, ok \in BOOLEAN : WriteReturn(k, ok)
  \/ \E k \in DOMAIN tasks, ok \in BOOLEAN : ManifestReturn(k, ok)
  \/ \E k \in DOMAIN tasks, ok \in BOOLEAN : MetaReturn(k, ok)
  \/ BatchEnd
  \/ ExecuteDownloadReturn
  \/ DownloadAllReturn

SpecDownload == InitDownload /\ [][NextDownload]_vars

\* every call to the registry or the file system returns or throws, and the
\* event loop runs every continuation that is ready
SpecDownloadFair == SpecDownload /\ WF_vars(NextDownload)

----------------------------------------------------------------------------
(* Properties of the download engine *)

\* the tarball fetches in flight: pacote.tarball called and not yet returned
InFlight == {k \in DOMAIN tasks : tasks[k].pc = "tarball"}

\* C12: while a download batch runs with concurrency N (the value the engine
\* was started with), at most N tarball fetches are in flight, for every plan
\* size and every outcome of the fetches.
C12_BoundedFetches ==
  dlStatus = "running" => Cardinality(InFlight) <= limit

\* the pool is full, a package waits in the queue and another one has failed
C12_Witness ==
  /\ dlStatus = "running"
  /\ Cardinality(InFlight) = limit
  /\ \E k \in DOMAIN tasks : tasks[k].pc = "queued"
  /\ \E k \in DOMAIN tasks : tasks[k].pc = "failed"

\* C13: downloadAll does not throw when items fail, and when it returns every
\* input item is settled and is in the result list exactly if it succeeded,
\* once: the failed subset is the input without the packages of the results.
C13_FailuresReported ==
  dlMode = "downloadAll" =>
    /\ dlStatus # "threw"
    /\ dlStatus = "returned" =>
         /\ \A k \in DOMAIN plan :
              /\ Settled(tasks[k])
              /\ tasks[k].pc = "ok" <=>
                   \E i \in DOMAIN results : results[i].package = k
         /\ \A i, j \in DOMAIN results :
              results[i].package = results[j].package => i = j

\* downloadAll returned after one package failed and another succeeded
C13_Witness ==
  /\ dlMode = "downloadAll"
  /\ dlStatus = "returned"
  /\ \E k \in DOMAIN tasks : tasks[k].pc = "failed"
  /\ \E k \in DOMAIN tasks : tasks[k].pc = "ok"

\* C14: a download whose fetched payload is empty fails, and that attempt
\* writes no tarball.
C14_EmptyRejected ==
  \A k \in DOMAIN tasks :
    tasks[k].payload = "empty" =>
      tasks[k].pc = "failed" /\ ~tasks[k].written

\* a fetch returned an empty payload, while another package was written
C14_Witness ==
  /\ \E k \in DOMAIN tasks : tasks[k].payload = "empty"
  /\ \E k \in DOMAIN tasks : tasks[k].written

\* C15: the store write is the last step of an item that can fail: an item
\* reported as failed has had no tarball written by that attempt; and a
\* written tarball is at the path of its name@version.
C15_WriteTerminal ==
  \A k \in DOMAIN tasks :
    /\ tasks[k].pc = "failed" => ~tasks[k].written
    /\ tasks[k].written => TarballPath(plan[k]) \in tarballs

\* C16: under fair scheduling, a batch that was started returns, with every
\* item attempted, whatever failed.
C16_BatchFinishes ==
  (dlStatus = "running") ~>
    (dlStatus = "returned" /\ \A k \in DOMAIN tasks : tasks[k].pc # "queued")

\* a batch with concurrency 1 returned: its first package failed and a later
\* one was downloaded
C16_Witness ==
  /\ dlStatus = "returned"
  /\ limit = 1
  /\ Len(tasks) >= 2
  /\ tasks[1].pc = "failed"
  /\ \E k \in DOMAIN tasks : tasks[k].pc = "ok"

\* C29: when executeDownload has returned, its batch result has exactly one
\* status entry per requested package, each 'success' or 'failed';
\* failedPackages is exactly the set of the packages whose entry is 'failed';
\* succeeded + failed = total; and success is true exactly when failed = 0.
C29_BatchResultConsistent ==
  (dlMode = "executeDownload" /\ dlStatus = "returned") =>
    LET r == DownloadBatchResult
        entriesOf(k) == {i \in DOMAIN r.results : r.results[i].package = k}
        withStatus(st) == {i \in DOMAIN r.results : r.results[i].status = st}
    IN /\ \A k \in DOMAIN plan : Cardinality(entriesOf(k)) = 1
       /\ Len(r.results) = Len(plan)
       /\ \A i \in DOMAIN r.results :
            r.results[i].status \in {"success", "failed"}
       /\ {r.failedPackages[i] : i \in DOMAIN r.failedPackages}
            = {r.results[i].package : i \in withStatus("failed")}
       /\ Len(r.failedPackages) = Cardinality(withStatus("failed"))
       /\ r.failed = Cardinality(withStatus("failed"))
       /\ r.succeeded = Cardinality(withStatus("success"))
       /\ r.total = Len(plan)
       /\ r.succeeded + r.failed = r.total
       /\ r.success <=> r.failed = 0

\* executeDownload returned after more than one batch, with a package that
\* failed and a package that was downloaded
C29_Witness ==
  /\ dlMode = "executeDownload"
  /\ dlStatus = "returned"
  /\ limit < Len(plan)
  /\ \E i \in DOMAIN results : results[i].status = "failed"
  /\ \E i \in DOMAIN results : results[i].status = "success"
  /\ Len(failedPackages) >= 1

\* C19: the concurrency the download engine runs with is the configured value
\* clamped to [1, 50], 5 when none is configured.
C19_PoolClamped ==
  dlStatus = "running" => limit = getConcurrency

----------------------------------------------------------------------------
(* Runs on the shared resolver *)

\* C17: a run observes no packument cached or in flight in another run.  Each
\* caller of getPackument here belongs to a run of its own and makes one
\* request, so a request that finds the name cached, or attaches to a pending
\* fetch, observes the cache or the in-flight map of another run.
C17_RunOwnsCache ==
  \A c \in DOMAIN clients :
    clients[c].pc # "idle" =>
      ~clients[c].cachedAtReq /\ clients[c].pendingAtReq = {}

----------------------------------------------------------------------------
(* Configuration *)

\* C18: a misconfiguration is rejected with an error before any registry
\* call: a run given a negative maxDepth issues no request and does not
\* return a plan, and no download batch runs under a concurrency below 1.
C18_MisconfigRejected ==
  /\ options.maxDepth < 0 => promises = <<>> /\ status # "returned"
  /\ concurrency < 0 => dlStatus \in {"idle", "rejected"}

----------------------------------------------------------------------------
(* findSiblingVersions on every pair of version lists *)

MaxSibCached == 2

\* stable versions of two majors and prereleases above them
SiblingVersions ==
  {V(1,0,0), V(1,0,1), V(1,1,0), PreV(1,1,1), V(2,0,0), PreV(2,1,0)}

FindSiblings ==
  /\ ~sibResult.done
  /\ sibResult' =
       [done |-> TRUE,
        versions |-> findSiblingVersions(sibCached, sibAvailable)]
  /\ UNCHANGED <<sibCached, sibAvailable, cacheVars, clients, runVars,
                 downloadVars, clearedAt, extraVars>>

InitSibling ==
  /\ registry = Registry(FALSE)
  /\ cached = <<>>
  /\ metadataNames = {}
  /\ options = [updateToLatest |-> FALSE, completeSiblingVersions |-> TRUE,
                includeDev |-> FALSE, includePeer |-> FALSE,
                includeOptional |-> FALSE, maxDepth |-> 0]
  /\ concurrency = 0
  /\ packumentCache = {}
  /\ packumentInflight = [n \in Names |-> 0]
  /\ promises = <<>>
  /\ clients = [c \in 1..NumClients |-> IdleClient]
  /\ pc = "idle"
  /\ missing = <<>>
  /\ InitLocals
  /\ dlMode = "none"
  /\ dlStatus = "idle"
  /\ plan = <<>>
  /\ limit = 0
  /\ tasks = <<>>
  /\ tarballs = {}
  /\ results = <<>>
  /\ failedPackages = <<>>
  /\ batchIndex = 0
  /\ \/ /\ sibCached \in SeqsUpTo(SiblingVersions, MaxSibCached)
        /\ sibAvailable \in SUBSET SiblingVersions
     \/ /\ sibCached = <<V(1,2,0), V(1,3,0)>>
        /\ sibAvailable = {V(1,2,0), V(1,2,1), V(1,2,2), V(1,3,0),
                           V(1,3,1), V(1,4,0), V(2,0,0)}
  /\ sibResult = [done |-> FALSE, versions |-> <<>>]
  /\ clearedAt = -1
  /\ InitExtra

NextSibling == FindSiblings

SpecSibling == InitSibling /\ [][NextSibling]_vars

\* C20: for all cachedVersions and availableVersions, the result of sibling
\* version completion contains no version of cachedVersions and no
\* prerelease version.
C20_SiblingsExcluded ==
  sibResult.done =>
    \A i \in DOMAIN sibResult.versions :
      /\ sibResult.versions[i] \notin SeqToSet(sibCached)
      /\ IsStable(sibResult.versions[i])

\* a sibling was found although the latest patch of a cached version is
\* itself cached and a prerelease above the result is available
C20_Witness ==
  /\ sibResult.done
  /\ sibResult.versions # <<>>
  /\ V(1,0,1) \in SeqToSet(sibCached) \cap sibAvailable
  /\ PreV(1,1,1) \in sibAvailable

\* the highest stable version of avail at or above lo and below hi
HighestStableIn(avail, lo, hi, v) ==
  /\ v \in avail /\ IsStable(v) /\ VLeq(lo, v) /\ VLess(v, hi)
  /\ \A w \in avail :
       IsStable(w) /\ VLeq(lo, w) /\ VLess(w, hi) => VLeq(w, v)

\* C21: the result of sibling version completion is exactly the set of the
\* versions v that are not cached and are, for some cached version X.Y.Z, the
\* highest stable available version in [X.Y.0, X.(Y+1).0) or in
\* [X.0.0, (X+1).0.0); no version of a major that no cached version has is in
\* the result.
C21_SiblingsExact ==
  sibResult.done =>
    /\ SeqToSet(sibResult.versions) =
         {v \in sibAvailable :
            /\ v \notin SeqToSet(sibCached)
            /\ \E i \in DOMAIN sibCached :
                 LET X == sibCached[i][1]
                     Y == sibCached[i][2]
                 IN \/ HighestStableIn(sibAvailable, V(X, Y, 0),
                                       V(X, Y + 1, 0), v)
                    \/ HighestStableIn(sibAvailable, V(X, 0, 0),
                                       V(X + 1, 0, 0), v)}
    /\ \A i \in DOMAIN sibResult.versions :
         \E j \in DOMAIN sibCached :
           sibCached[j][1] = sibResult.versions[i][1]

\* cached 1.2.0 and 1.3.0 against seven upstream versions yields 1.2.2,
\* 1.3.1 and 1.4.0: 1.4.0 once, 2.0.0 not
C21_Witness ==
  /\ sibResult.done
  /\ sibCached = <<V(1,2,0), V(1,3,0)>>
  /\ V(2,0,0) \in sibAvailable
  /\ Len(sibResult.versions) = 3
  /\ SeqToSet(sibResult.versions) = {V(1,2,2), V(1,3,1), V(1,4,0)}

----------------------------------------------------------------------------
(* Resolution precedence *)

IsVersionKey(packument, range) ==
  range[1] = "exact" /\ range[2] \in DOMAIN packument.versions

IsTagName(packument, range) ==
  range[1] = "tag" /\ range[2] \in DOMAIN packument.distTags

\* C25: every version resolved for (name, versionRange) is versionRange itself
\* when that is a key of versions; otherwise the dist-tag target when
\* versionRange is a dist-tag name; otherwise the highest key of versions that
\* satisfies the range.  When none applies nothing is resolved, the target is
\* skipped and the run does not fail.
C25_ResolutionPrecedence ==
  /\ status # "threw"
  /\ \A r \in resolutions :
       LET packument == registry[r.name]
       IN IF IsVersionKey(packument, r.range)
          THEN r.version = r.range[2]
          ELSE IF IsTagName(packument, r.range)
          THEN r.version = packument.distTags[r.range[2]]
          ELSE /\ r.version \in DOMAIN packument.versions
               /\ Satisfies(r.version, r.range)
               /\ \A w \in DOMAIN packument.versions :
                    Satisfies(w, r.range) => VLeq(w, r.version)

\* a run returned after resolving a version key, a dist-tag and a range that
\* more than one version satisfies, and after skipping an unresolved target
C25_Witness ==
  /\ Done /\ status = "returned" /\ unresolved
  /\ \E r \in resolutions : IsVersionKey(registry[r.name], r.range)
  /\ \E r \in resolutions : IsTagName(registry[r.name], r.range)
  /\ \E r \in resolutions :
       /\ r.range[1] \in {"caret", "gte"}
       /\ \E w \in DOMAIN registry[r.name].versions :
            w # r.version /\ Satisfies(w, r.range)

----------------------------------------------------------------------------
(* Registry calls of a run *)

\* C26: within one run the registry packument fetch is issued at most once
\* per package name.
C26_FetchedOncePerRun ==
  \A n \in Names : RegistryCalls(n) <= 1

----------------------------------------------------------------------------
(* clearCache among concurrent callers of getPackument *)

\* this.packumentCache.clear(); this.packumentInflight.clear()
clearCache ==
  /\ clearedAt = -1
  /\ packumentCache' = {}
  /\ packumentInflight' = [n \in Names |-> 0]
  /\ clearedAt' = Len(promises)
  /\ UNCHANGED <<promises, clients, runVars, downloadVars, siblingVars,
                 extraVars>>

NextClear ==
  \/ NextCache
  \/ clearCache

SpecClear == InitCache /\ [][NextClear]_vars

\* C27: after clearCache the cache and the in-flight map stay empty until the
\* next getPackument request is issued, a fetch that was pending at the
\* clear puts no result into the cache, and it removes no in-flight entry of
\* a request issued after the clear.
C27_ClearIsolates ==
  clearedAt # -1 =>
    /\ Len(promises) = clearedAt =>
         packumentCache = {} /\ \A n \in Names : packumentInflight[n] = 0
    /\ \A n \in packumentCache :
         \E i \in DOMAIN promises :
           i > clearedAt /\ promises[i].name = n /\ promises[i].state = "ok"
    /\ \A i \in DOMAIN promises :
         i > clearedAt /\ promises[i].state = "pending" =>
           packumentInflight[promises[i].name] = i

\* C28: the in-flight map holds an entry for a name only while a registry
\* fetch of that name is pending.
C28_InflightOnlyPending ==
  \A n \in Names :
    packumentInflight[n] # 0 =>
      promises[packumentInflight[n]].state = "pending"

----------------------------------------------------------------------------
(* The task table of the middleware: createTask, updateTask and the        *)
(* executors of the sync, analysis, download and export tasks              *)

MaxTasks == 2
MaxTaskItems == 2

TaskKinds == {"sync", "analysis", "download", "export"}

\* the awaited calls of an executor, in the order of its try block
Phases(kind) ==
  CASE kind = "sync" ->
         <<"scan", "refresh", "analyze", "download", "binaries", "save">>
    [] kind = "analysis" -> <<"scan", "refresh", "analyze", "binaries">>
    [] kind = "download" -> <<"download">>
    [] kind = "export" -> <<"scan", "ensureDir", "pack", "record">>

PhaseIndex(kind, p) == CHOOSE i \in DOMAIN Phases(kind) : Phases(kind)[i] = p

InPhase(e) == \E i \in DOMAIN Phases(e.kind) : Phases(e.kind)[i] = e.pc

\* the number of packages a handler starts an executor with: a download or
\* retry request carries a non-empty list, the other tasks none
ItemChoices(kind) == IF kind = "download" THEN 1..MaxTaskItems ELSE {0}

\* the size of the plan an analysis call works towards
PlanSizes == 0..MaxTaskItems

\* Object.assign(target, updates)
ObjectAssign(target, updates) ==
  [f \in DOMAIN target \cup DOMAIN updates |->
     IF f \in DOMAIN updates THEN updates[f] ELSE target[f]]

\* updateTask(taskId, updates)
updateTask(ts, taskId, updates) ==
  IF taskId \in DOMAIN ts
  THEN [ts EXCEPT ![taskId] = ObjectAssign(ts[taskId], updates)]
  ELSE ts

\* faulty variant: the progress update writes the status as well
PhaseMessage_resets(p) == [message |-> p, status |-> "pending"]

\* the updates of a progress report: message and progress, never status
PhaseMessage(p) == [message |-> p]

\* faulty variant: downloadAll is called while the analysis is still awaited
CanDownload_unawaited(e) == e.pc \in {"analyze", "download"}

\* the tarball downloads of a task run inside its awaited download call
CanDownload(e) == e.pc = "download"

\* the awaited calls that can reject into the executor's catch: the metadata
\* save of a sync task and the items of a download task catch their own errors
CanThrow(e) == InPhase(e) /\ e.pc # "save" /\ e.kind # "download"

\* a handler has created a task and not yet run its executor's first statement
SyncSection == \E t \in DOMAIN execs : execs[t].pc = "called"

notTasks == <<cacheVars, clients, runVars, downloadVars, siblingVars,
              clearedAt, offlineVars, importVars>>

\* handleSync, handleAnalyze, handleDownload, handleRetry, handleCreateExport:
\* createTask() stores a 'pending' task under a fresh id and the executor is
\* called with n packages to come
createTask(kind, n) ==
  /\ Len(ingestTasks) < MaxTasks
  /\ ~SyncSection
  /\ ingestTasks' = Append(ingestTasks,
                           [status |-> "pending", message |-> "none"])
  /\ execs' = Append(execs, [kind |-> kind, pc |-> "called", items |-> n,
                             started |-> 0, planReturned |-> FALSE])
  /\ UNCHANGED notTasks

\* the executor up to its first await: updateTask(taskId, {status: 'running'})
\* and the message of the first phase
ExecutorStart(t) ==
  /\ execs[t].pc = "called"
  /\ ingestTasks' =
       updateTask(updateTask(ingestTasks, t, [status |-> "running"]),
                  t, PhaseMessage(Phases(execs[t].kind)[1]))
  /\ execs' = [execs EXCEPT ![t].pc = Phases(execs[t].kind)[1]]
  /\ UNCHANGED notTasks

\* the download call of task t starts the download of one more package
StartTarball(t) ==
  /\ ~SyncSection
  /\ CanDownload(execs[t])
  /\ execs[t].started < execs[t].items
  /\ execs' = [execs EXCEPT ![t].started = @ + 1]
  /\ ingestTasks' = IF execs[t].kind = "download"
                    THEN updateTask(ingestTasks, t, PhaseMessage("downloaded"))
                    ELSE ingestTasks
  /\ UNCHANGED notTasks

\* the awaited call of task t returns: the next phase begins with a progress
\* update, and after the last phase (or an export scan that found no file)
\* the task is updated to 'completed' and the executor returns. The analysis
\* of a sync task is called towards a plan of n packages; the download call
\* returns when all of them were attempted
PhaseReturn(t, empty, n) ==
  LET e == execs[t]
      i == PhaseIndex(e.kind, e.pc)
      last == i = Len(Phases(e.kind))
                 \/ (e.kind = "export" /\ e.pc = "scan" /\ empty)
      next == Phases(e.kind)[i + 1]
  IN /\ ~SyncSection
     /\ InPhase(e)
     /\ e.pc = "download" => e.started = e.items
     /\ empty => (e.kind = "export" /\ e.pc = "scan")
     /\ n # 0 => (e.kind = "sync" /\ e.pc = "refresh")
     /\ IF last
        THEN /\ ingestTasks' =
                  updateTask(ingestTasks, t, [status |-> "completed"])
             /\ execs' = [execs EXCEPT ![t].pc = "returned",
                                       ![t].items = 0, ![t].started = 0]
        ELSE /\ ingestTasks' = updateTask(ingestTasks, t, PhaseMessage(next))
             /\ execs' = [execs EXCEPT
                            ![t].pc = next,
                            ![t].planReturned = @ \/ e.pc = "analyze",
                            ![t].items =
                              IF e.kind = "sync" /\ next = "analyze" THEN n
                              ELSE IF e.pc = "download" THEN 0 ELSE @,
                            ![t].started = IF e.pc = "download" THEN 0 ELSE @]
     /\ UNCHANGED notTasks

\* the awaited call of task t rejects: the executor's catch updates the task
\* to 'failed' and rethrows
PhaseThrow(t) ==
  /\ ~SyncSection
  /\ CanThrow(execs[t])
  /\ ingestTasks' = updateTask(ingestTasks, t, [status |-> "failed"])
  /\ execs' = [execs EXCEPT ![t].pc = "threw", ![t].items = 0,
                            ![t].started = 0]
  /\ UNCHANGED notTasks

\* the handler's .catch((error) => updateTask(taskId, {status: 'failed'}))
HandlerCatch(t) ==
  /\ ~SyncSection
  /\ execs[t].pc = "threw"
  /\ ingestTasks' = updateTask(ingestTasks, t, [status |-> "failed"])
  /\ execs' = [execs EXCEPT ![t].pc = "caught"]
  /\ UNCHANGED notTasks

\* the resolver of a plugin that has been constructed and runs no analysis
InitResolverIdle ==
  /\ registry = Registry(FALSE)
  /\ cached = <<>>
  /\ metadataNames = {}
  /\ options = [updateToLatest |-> FALSE, completeSiblingVersions |-> FALSE,
                includeDev |-> FALSE, includePeer |-> FALSE,
                includeOptional |-> FALSE, maxDepth |-> 0]
  /\ concurrency = 0
  /\ packumentCache = {}
  /\ packumentInflight = [n \in Names |-> 0]
  /\ promises = <<>>
  /\ clients = [c \in 1..NumClients |-> IdleClient]
  /\ pc = "idle"
  /\ missing = <<>>
  /\ InitLocals

InitTaskTable == InitResolverIdle /\ InitOther /\ InitExtra

NextTasks ==
  \/ \E kind \in TaskKinds : \E n \in ItemChoices(kind) : createTask(kind, n)
  \/ \E t \in DOMAIN execs : ExecutorStart(t)
  \/ \E t \in DOMAIN execs : StartTarball(t)
  \/ \E t \in DOMAIN execs, empty \in BOOLEAN, n \in PlanSizes :
       PhaseReturn(t, empty, n)
  \/ \E t \in DOMAIN execs : PhaseThrow(t)
  \/ \E t \in DOMAIN execs : HandlerCatch(t)

SpecTasks == InitTaskTable /\ [][NextTasks]_vars

\* C30: a task starts 'pending' and its status only moves pending -> running
\* -> (completed | failed): a 'completed' or 'failed' status never changes
\* again and a 'running' task never returns to 'pending', whatever the
\* interleaving of the running tasks.
C30_StatusMonotone ==
  [][/\ \A t \in DOMAIN ingestTasks' \ DOMAIN ingestTasks :
          ingestTasks'[t].status = "pending"
     /\ \A t \in DOMAIN ingestTasks :
          /\ t \in DOMAIN ingestTasks'
          /\ ingestTasks'[t].status # ingestTasks[t].status =>
               <<ingestTasks[t].status, ingestTasks'[t].status>> \in
                 {<<"pending", "running">>, <<"running", "completed">>,
                  <<"running", "failed">>}]_vars

\* two tasks have run concurrently: one completed, the other failed and the
\* handler's catch has updated it once more
C30_Witness ==
  \E t, u \in DOMAIN ingestTasks :
    /\ ingestTasks[t].status = "completed"
    /\ execs[t].pc = "returned"
    /\ ingestTasks[u].status = "failed"
    /\ execs[u].pc = "caught"

\* C22: in a sync task a tarball download is started only after
\* analyzeMissingDependencies has returned the plan, and never while the
\* task's analysis is expanding the graph.
C22_PlanBeforeDownloads ==
  [][\A t \in DOMAIN execs :
       (/\ execs[t].kind = "sync"
        /\ t \in DOMAIN execs'
        /\ execs'[t].started > execs[t].started) =>
         (execs[t].planReturned /\ execs[t].pc # "analyze")]_vars

\* a sync task has downloaded its whole plan after its analysis returned,
\* while another sync task is in its analysis
C22_Witness ==
  \E t, u \in DOMAIN execs :
    /\ execs[t].kind = "sync"
    /\ execs[t].planReturned
    /\ execs[t].items >= 2
    /\ execs[t].started = execs[t].items
    /\ execs[u].kind = "sync"
    /\ execs[u].pc = "analyze"

----------------------------------------------------------------------------
(* OfflinePackageStorage.readPackage *)

\* the versions a manifest or a tarball name can carry
OfflineVersions == {V(1,0,0), PreV(1,1,0), V(2,0,0)}

OfflineNames == {"pkg", "@scope/pkg"}

\* path.basename(name)
basename(name) == IF name = "@scope/pkg" THEN "pkg" ELSE name

\* a file name: base, "-", version, extension; package.json has no version
FileName(base, version, ext) == [base |-> base, version |-> version, ext |-> ext]

\* the files a package directory can hold: package.json, the tarballs
\* verdaccio stores (basename-version.tgz) and, for a scoped package, the
\* tarballs PackageDownloader.getTarballName names (scope-name-version.tgz)
DirectoryChoices(name) ==
  LET bases == IF name = "@scope/pkg" THEN {"pkg", "scope-pkg"} ELSE {"pkg"}
      tgz == {FileName(b, v, "tgz") : b \in bases, v \in OfflineVersions}
  IN {fs \cup js : fs \in SUBSET tgz,
                   js \in {{}, {FileName("package", NoVersion, "json")}}}

\* items.filter(endsWith('.tgz')).map(item => item.substring(
\* baseName.length + 1, item.length - 4)).filter(semver.valid): the text
\* after the first baseName.length + 1 characters is the version only when
\* the file's base is as long as baseName
localVersions(items, name) ==
  {f.version : f \in {g \in items : /\ g.ext = "tgz"
                                    /\ Len(g.base) = Len(basename(name))}}

\* the first element of the versions sorted by semver.compare(b, a)
Highest(versions) == CHOOSE v \in versions : \A w \in versions : VLeq(w, v)

\* sortedVersions, stableVersions and latestVersion
latestVersion(available) ==
  LET stableVersions == {v \in available : IsStable(v)}
  IN IF stableVersions # {} THEN Highest(stableVersions)
     ELSE Highest(available)

notOffline == <<cacheVars, clients, runVars, downloadVars, siblingVars,
                clearedAt, taskVars, importVars>>

\* readPackage(name, cb) up to await readdir: in online mode, or when
\* super.readPackage reports an error, cb receives the stored manifest
readPackage(err) ==
  LET offline == offData.offline \/ ~offData.hasProxy
  IN /\ offCall.pc = "idle"
     /\ offCall' = [pc |-> IF offline /\ ~err THEN "readdir" ELSE "returned",
                    offline |-> offline,
                    err |-> err,
                    versions |-> offData.versions,
                    latest |-> offData.latest]
     /\ UNCHANGED <<offData, offItems, notOffline>>

\* await readdir(this.path) returns or throws: the versions without a local
\* tarball are deleted, dist-tags.latest is set when a version is left, and
\* cb receives the manifest
ReaddirReturn(ok) ==
  /\ offCall.pc = "readdir"
  /\ IF ok
     THEN LET local == localVersions(offItems, offData.name)
              available == {v \in offData.versions : v \in local}
          IN offCall' = [offCall EXCEPT
                           !.pc = "returned",
                           !.versions = available,
                           !.latest = IF available # {}
                                      THEN latestVersion(available)
                                      ELSE offData.latest]
     ELSE offCall' = [offCall EXCEPT !.pc = "returned", !.err = TRUE]
  /\ UNCHANGED <<offData, offItems, notOffline>>

\* a stored manifest (at least one version; dist-tags.latest names one of
\* them, or is absent), a package directory and a configuration
InitOffline ==
  /\ InitResolverIdle
  /\ InitOther
  /\ InitTasks
  /\ InitImportIdle
  /\ \E name \in OfflineNames, offline \in BOOLEAN, hasProxy \in BOOLEAN,
        versions \in SUBSET OfflineVersions \ {{}} :
       \E latest \in versions \cup {NoVersion} :
         offData = [name |-> name, offline |-> offline, hasProxy |-> hasProxy,
                    versions |-> versions, latest |-> latest]
  /\ offItems \in DirectoryChoices(offData.name)
  /\ offCall = [pc |-> "idle", offline |-> FALSE, err |-> FALSE,
                versions |-> {}, latest |-> NoVersion]

NextOffline ==
  \/ \E err \in BOOLEAN : readPackage(err)
  \/ \E ok \in BOOLEAN : ReaddirReturn(ok)

SpecOffline == InitOffline /\ [][NextOffline]_vars

\* the versions that have a .tgz file in the package directory
TarballVersions == {f.version : f \in {g \in offItems : g.ext = "tgz"}}

\* C23: in offline mode the manifest readPackage returns lists only versions
\* that have a local .tgz tarball, its dist-tags.latest is the highest
\* returned stable version when there is one, and dist-tags.latest names a
\* version the returned manifest lists.
C23_OfflineLatestPresent ==
  (offCall.pc = "returned" /\ offCall.offline /\ ~offCall.err) =>
    /\ offCall.versions \subseteq TarballVersions
    /\ \A v \in offCall.versions :
         IsStable(v) => IsStable(offCall.latest) /\ VLeq(v, offCall.latest)
    /\ offCall.latest \in offCall.versions

----------------------------------------------------------------------------
(* ImportHandler.importPackage *)

MaxImportFiles == 2

\* file contents, and "missing" for a manifest entry without a file in the
\* extracted archive
Contents == {"x", "y"}

\* calculateFileChecksum: the SHA256 digest of a file's content
sha256(content) == IF content = "x" THEN "dx" ELSE "dy"

Digests == {sha256(c) : c \in Contents}

\* an entry of manifest.files with the extracted file and the target:
\* checksum is file.checksum, content what tempDir holds under file.path,
\* exists whether access(destPath) succeeds
ImportFiles ==
  [checksum : Digests, content : Contents \cup {"missing"}, exists : BOOLEAN]

\* the file of entry f can be hashed and its digest is not file.checksum
Mismatch(f) == f.content # "missing" /\ sha256(f.content) # f.checksum

notImport == <<cacheVars, clients, runVars, downloadVars, siblingVars,
               clearedAt, taskVars, offlineVars>>

\* importPackage up to the validation loop: mkdir, tar.extract and the
\* manifest are read, or one of them throws
ImportStart(ok) ==
  /\ impPc = "idle"
  /\ impPc' = IF ~ok THEN "threw"
              ELSE IF impOptions.validateChecksum /\ impFiles # <<>>
                   THEN "validating" ELSE "importing"
  /\ UNCHANGED <<impFiles, impOptions, impIndex, impErrors, impStorage,
                 impCounts, notImport>>

\* one iteration of the validation loop: a mismatch or a file that cannot be
\* read is pushed to errors; after the last file the import loop begins
ValidateFile ==
  LET i == impIndex + 1
      f == impFiles[i]
  IN /\ impPc = "validating"
     /\ impErrors' =
          IF f.content = "missing"
          THEN Append(impErrors, [kind |-> "unverifiable", file |-> i])
          ELSE IF sha256(f.content) # f.checksum
               THEN Append(impErrors, [kind |-> "mismatch", file |-> i])
               ELSE impErrors
     /\ IF i = Len(impFiles)
        THEN impPc' = "importing" /\ impIndex' = 0
        ELSE impPc' = impPc /\ impIndex' = i
     /\ UNCHANGED <<impFiles, impOptions, impStorage, impCounts, notImport>>

\* one iteration of the import loop: an existing target is skipped unless
\* overwrite is set; otherwise mkdir and copyFile run, and a failure of
\* either is counted and pushed to errors
ImportFile(copyOk) ==
  LET i == impIndex + 1
      f == impFiles[i]
  IN /\ impPc = "importing"
     /\ impIndex < Len(impFiles)
     /\ IF f.exists /\ ~impOptions.overwrite
        THEN /\ impCounts' = [impCounts EXCEPT !.skipped = @ + 1]
             /\ UNCHANGED <<impStorage, impErrors>>
        ELSE IF f.content # "missing" /\ copyOk
             THEN /\ impStorage' = impStorage \cup {i}
                  /\ impCounts' = [impCounts EXCEPT !.imported = @ + 1]
                  /\ UNCHANGED impErrors
             ELSE /\ impCounts' = [impCounts EXCEPT !.failed = @ + 1]
                  /\ impErrors' =
                       Append(impErrors, [kind |-> "import", file |-> i])
                  /\ UNCHANGED impStorage
     /\ impIndex' = i
     /\ UNCHANGED <<impFiles, impOptions, impPc, notImport>>

\* the ImportResult importPackage builds after the import loop
ImportResult ==
  [success |-> impCounts.failed = 0,
   imported |-> impCounts.imported,
   skipped |-> impCounts.skipped,
   failed |-> impCounts.failed,
   errors |-> impErrors]

\* the import loop has ended: the import record is saved and the result
\* returned, or addImportRecord throws
ImportReturn(ok) ==
  /\ impPc = "importing"
  /\ impIndex = Len(impFiles)
  /\ impPc' = IF ok THEN "returned" ELSE "threw"
  /\ UNCHANGED <<impFiles, impOptions, impIndex, impErrors, impStorage,
                 impCounts, notImport>>

\* an extracted archive, the state of the targets and the import options
InitImport ==
  /\ InitResolverIdle
  /\ InitOther
  /\ InitTasks
  /\ InitOfflineIdle
  /\ impFiles \in SeqsUpTo(ImportFiles, MaxImportFiles)
  /\ impOptions \in [validateChecksum : BOOLEAN, overwrite : BOOLEAN]
  /\ impPc = "idle"
  /\ impIndex = 0
  /\ impErrors = <<>>
  /\ impStorage = {}
  /\ impCounts = [imported |-> 0, skipped |-> 0, failed |-> 0]

NextImport ==
  \/ \E ok \in BOOLEAN : ImportStart(ok)
  \/ ValidateFile
  \/ \E copyOk \in BOOLEAN : ImportFile(copyOk)
  \/ \E ok \in BOOLEAN : ImportReturn(ok)

SpecImport == InitImport /\ [][NextImport]_vars

\* C24: with validateChecksum enabled, every manifest file has been checked
\* when the import phase runs, a file whose checksum does not match the
\* manifest is not copied into storage, and an import with such a file is
\* not reported as successful.
C24_ChecksumGate ==
  impOptions.validateChecksum =>
    /\ impPc \in {"importing", "returned"} =>
         \A i \in DOMAIN impFiles :
           Mismatch(impFiles[i]) =>
             \E j \in DOMAIN impErrors :
               impErrors[j] = [kind |-> "mismatch", file |-> i]
    /\ \A i \in impStorage : ~Mismatch(impFiles[i])
    /\ (impPc = "returned" /\ \E i \in DOMAIN impFiles : Mismatch(impFiles[i]))
         => ~ImportResult.success

====
